---- MODULE Spec2Model ----
(***************************************************************************)
(* The client-side router of the course-administration SPA (router.js),    *)
(* with the session store (auth.js) and the login controller it calls.     *)
(*                                                                         *)
(* One browser tab is modelled.  A dispatch (handleLocation) runs          *)
(* synchronously up to its first await; a redirect (navigateTo) calls the  *)
(* next dispatch inside the same synchronous run, so a whole redirect      *)
(* chain is one step.  loadView then suspends on fetch: each pending load  *)
(* is an entry of loads and settles in a later step, in any order.         *)
(* `await fetch(..)` and the following `await response.text()` write       *)
(* nothing in between, so both are one suspension with three outcomes:     *)
(* a body read from a success response, a body read from a non-success     *)
(* response, or a rejection.                                               *)
(***************************************************************************)
EXTENDS Integers, Sequences, FiniteSets, TLC

\* ------------------------------------------------------------- bounds
\* loads (suspended loadView calls) that may be pending at the same time
MaxLoads == 2
\* login submissions whose request may be pending at the same time
MaxLogins == 1
\* dispatches followed in one synchronous redirect chain
MaxChain == 4
\* registration submissions whose requests may be pending at the same time
MaxRegs == 2
\* users the store may hold
MaxUsers == 5
\* browser tabs that show the student dashboard
NumTabs == 2
\* calls of the student dashboards' handlers that may be pending at the same
\* time
MaxCalls == 2
\* ids a stored enrolledStudents list may hold
MaxEnrolled == 2
\* courses the store may hold
MaxCourses == 2
\* the largest id the store gives to a created course
MaxCourseId == 2
\* calls of the management view's handlers that may be pending at the same time
MaxAdminCalls == 2

\* ------------------------------------------------------------- values
\* "value or null": the empty sequence is null, <<x>> is the value x
None == <<>>
Some(x) == <<x>>

\* the paths typed, linked or popped in the model; /courses stands for the
\* paths the switch of handleLocation does not name
Paths ==
  {"/", "/home", "/login", "/register", "/tasks", "/student-dashboard",
   "/courses"}

\* router.js: the static route table
routes ==
  [p \in {"/", "/login", "/register", "/tasks", "/student-dashboard", "/404"} |->
     CASE p = "/" -> "src/views/home.html"
       [] p = "/login" -> "src/views/login.html"
       [] p = "/register" -> "src/views/register.html"
       [] p = "/tasks" -> "src/views/task.html"
       [] p = "/student-dashboard" -> "src/views/student-dashboard.html"
       [] p = "/404" -> "src/views/404.html"]

\* the users collection of the data store when the page is opened
InitialUsers ==
  { [id |-> 1, email |-> "admin@academy.com", password |-> "admin123",
     role |-> "administrator"],
    [id |-> 2, email |-> "student@academy.com", password |-> "student123",
     role |-> "student"],
    [id |-> 3, email |-> "teacher@academy.com", password |-> "teacher123",
     role |-> "instructor"] }

\* the student of InitialUsers and a second student account
Student == CHOOSE u \in InitialUsers : u.role = "student"
SecondStudent ==
  [id |-> 4, email |-> "student2@academy.com", password |-> "student456",
   role |-> "student"]

\* the courses collection of the data store when the page is opened
InitialCourses ==
  << [id |-> 1, title |-> "Algebra", description |-> "Linear algebra",
      category |-> "Math", capacity |-> [number |-> 1],
      instructorId |-> [number |-> 1], enrolledStudents |-> <<>>] >>

\* the courses collection once the student has enrolled in the course
EnrolledCourses ==
  [InitialCourses EXCEPT ![1].enrolledStudents = <<Student.id>>]

\* the administrator of InitialUsers
Administrator == CHOOSE u \in InitialUsers : u.role = "administrator"

\* the instructors collection of the data store
InitialInstructors == << [id |-> 1, name |-> "Ada Lovelace"] >>

\* what is typed into the course form before a submit: title, description
\* and category as text, capacity and instructor as the characters of the
\* field's value (the instructor is the value of the selected option, empty
\* for the placeholder option)
FormInputs ==
  { [title |-> "Chemistry", description |-> "Atoms", category |-> "Science",
     capacity |-> <<"1", "0">>, instructorId |-> <<"1">>],
    [title |-> "Biology", description |-> "Cells", category |-> "Science",
     capacity |-> <<>>, instructorId |-> <<>>] }

\* the (email, password) pairs typed into the login form
Credentials ==
  { <<"admin@academy.com", "admin123">>, <<"student@academy.com", "student123">>,
    <<"admin@academy.com", "wrong">> }

\* the (email, password) pair typed into the login form while the router is
\* followed with pending loads: the student's, whose dispatch of /tasks is
\* the longest chain (every pair of Credentials is followed in AuthSpec)
RouterCredentials == { <<"student@academy.com", "student123">> }

\* the (email, password) pairs typed into the registration form: an email
\* the store has a user for, and a new one
Registrations ==
  { <<"student@academy.com", "secret">>, <<"new@academy.com", "new123">> }

\* the body of a non-success response to the fallback fetch: loadView
\* renders it without looking at response404.ok
ErrorBody == "error-body"

VARIABLES
  localStorage,   \* the value under USER_INFO_KEY: None or Some(serialized record)
  users,          \* the users collection of the data store
  path,           \* window.location.pathname
  booted,         \* DOMContentLoaded has been handled
  nav,            \* hrefs of the links renderNavbar wrote into #main-nav
  dashboardView,  \* body carries the class dashboard-view
  mount,          \* appRoot: its html, the logout button, the live listeners
  loads,          \* pending loadView calls, oldest first
  logins,         \* pending handleLogin calls, oldest first
  chain,          \* the dispatches of the last synchronous redirect chain
  settled,        \* the load that ended in the last step: None or Some(load)
  regs,           \* pending handleRegister calls, oldest first
  courses,        \* the courses collection of the data store, in store order
  nextId,         \* the id the store gives to the next created course
  dash,           \* the student dashboards: per tab its storage and its lists
  calls,          \* pending calls of the student dashboard's handlers
  admin,          \* the management view: its course list and its form
  adminCalls,     \* pending calls of the management view's handlers
  last            \* what the last step did to the session, the store or the
                  \* user (an alert): None or Some(record)

\* the data store's courses and the two dashboards working on them
dataVars == <<courses, nextId, dash, calls, admin, adminCalls>>

vars ==
  <<localStorage, users, path, booted, nav, dashboardView, mount, loads,
    logins, chain, settled, regs, dataVars, last>>

\* ------------------------------------------------------------- auth.js
\* JSON.stringify of an object whose own properties are, in insertion order,
\* keys: the text lists each key with its value
JSONstringify(o, keys) ==
  [keys |-> keys, vals |-> [k \in 1..Len(keys) |-> o[keys[k]]]]

\* JSON.parse: the object with exactly the keys the text lists
JSONparse(s) ==
  [key \in { s.keys[k] : k \in 1..Len(s.keys) } |->
     s.vals[CHOOSE k \in 1..Len(s.keys) : s.keys[k] = key]]

\* saveUserInfo writing the user as the store returned it
saveUserInfo_WholeUser(user) ==
  Some(JSONstringify(user, <<"id", "email", "password", "role">>))

\* saveUserInfo: the value written under USER_INFO_KEY
saveUserInfo(user) ==
  Some(JSONstringify([id |-> user.id, email |-> user.email, role |-> user.role],
                     <<"id", "email", "role">>))

\* logOut: the key is removed
logOut == None

isAuthenticated(storage) == storage # None

getCurrentUser(storage) ==
  IF storage # None THEN Some(JSONparse(storage[1])) ELSE None

\* user.role, read only behind isAuth in the code
RoleOf(user) == IF user = None THEN "" ELSE user[1].role

\* ----------------------------------------------------------- router.js
\* what the synchronous part of one handleLocation call decides: a redirect
\* (navigateTo(redirect), then return) or a call of loadView(viewPath)
\* followed by viewInitializer; Redirect_WithoutReturn is a redirect whose
\* dispatch goes on to loadView after navigateTo has returned
Redirect_WithoutReturn(to) ==
  [redirect |-> to, load |-> TRUE, viewPath |-> "undefined",
   viewInitializer |-> "null"]
Redirect(to) ==
  [redirect |-> to, load |-> FALSE, viewPath |-> "undefined",
   viewInitializer |-> "null"]
LoadView(viewPath, viewInitializer) ==
  [redirect |-> "", load |-> TRUE, viewPath |-> viewPath,
   viewInitializer |-> viewInitializer]

\* ProtectedGuard with /tasks left out of the protected routes
ProtectedGuard_TasksOpen(p, isAuth) ==
  ~isAuth /\ p = "/student-dashboard"

\* the first guard: unauthenticated, protected route
ProtectedGuard(p, isAuth) ==
  ~isAuth /\ (p = "/tasks" \/ p = "/student-dashboard")

\* GuestOnlyGuard with /register left out of the guest-only routes
GuestOnlyGuard_RegisterOpen(p, isAuth) ==
  isAuth /\ p = "/login"

\* the second guard: authenticated, guest-only route
GuestOnlyGuard(p, isAuth) ==
  isAuth /\ (p = "/login" \/ p = "/register")

\* TasksRoute without the role tests: every session gets the management view
TasksRoute_AnyRole(isAuth, user) ==
  IF isAuth
    THEN LoadView(routes["/tasks"], "initializeTasksView")
    ELSE LoadView("undefined", "null")

\* TasksRoute sending every session but the administrator's to the student
\* dashboard
TasksRoute_OthersToStudent(isAuth, user) ==
  IF isAuth /\ RoleOf(user) = "administrator"
    THEN LoadView(routes["/tasks"], "initializeTasksView")
    ELSE Redirect("/student-dashboard")

\* case "/tasks": viewPath stays undefined for any other role
TasksRoute(isAuth, user) ==
  IF isAuth /\ RoleOf(user) = "administrator"
    THEN LoadView(routes["/tasks"], "initializeTasksView")
  ELSE IF isAuth /\ RoleOf(user) = "student"
    THEN Redirect("/student-dashboard")
  ELSE LoadView("undefined", "null")

\* StudentDashboardRoute without the role test
StudentDashboardRoute_AnyRole(isAuth, user) ==
  IF isAuth
    THEN LoadView(routes["/student-dashboard"], "initializeStudentDashboard")
    ELSE Redirect("/login")

\* case "/student-dashboard"
StudentDashboardRoute(isAuth, user) ==
  IF isAuth /\ RoleOf(user) = "student"
    THEN LoadView(routes["/student-dashboard"], "initializeStudentDashboard")
    ELSE Redirect(IF isAuth THEN "/tasks" ELSE "/login")

\* DefaultRoute sending unknown paths to the home page
DefaultRoute_Home == LoadView(routes["/"], "null")

\* default: the 404 page
DefaultRoute == LoadView(routes["/404"], "null")

\* the switch over path
RouteSwitch(p, isAuth, user) ==
  CASE p = "/" \/ p = "/home" -> LoadView(routes["/"], "null")
    [] p = "/login" -> LoadView(routes["/login"], "initializeLoginForm")
    [] p = "/register" -> LoadView(routes["/register"], "initializeRegisterForm")
    [] p = "/tasks" -> TasksRoute(isAuth, user)
    [] p = "/student-dashboard" -> StudentDashboardRoute(isAuth, user)
    [] OTHER -> DefaultRoute

\* handleLocation up to its first await, for location p and the stored
\* session; pushed: navigateTo called it, after history.pushState({}, "", p)
handleLocation(p, storage, pushed) ==
  LET isAuth == isAuthenticated(storage)
      user == getCurrentUser(storage)
      res == IF ProtectedGuard(p, isAuth) THEN Redirect("/login")
             ELSE IF GuestOnlyGuard(p, isAuth) THEN Redirect("/tasks")
             ELSE RouteSwitch(p, isAuth, user)
  IN [path |-> p, pushed |-> pushed, isAuth |-> isAuth, user |-> user, redirect |-> res.redirect, load |-> res.load,
      viewPath |-> res.viewPath, viewInitializer |-> res.viewInitializer]

\* navigateTo inside handleLocation: the dispatches of one synchronous run,
\* the dispatch of p first, each redirect followed by the dispatch it calls
RECURSIVE Chain(_, _, _, _)
Chain(p, storage, pushed, fuel) ==
  LET d == handleLocation(p, storage, pushed)
  IN IF d.redirect # "" /\ fuel > 1
       THEN <<d>> \o Chain(d.redirect, storage, TRUE, fuel - 1)
       ELSE <<d>>

\* renderNavbar: the hrefs written into #main-nav
renderNavbar(storage) ==
  IF isAuthenticated(storage)
    THEN IF RoleOf(getCurrentUser(storage)) = "administrator"
           THEN {"/", "/tasks"}
         ELSE IF RoleOf(getCurrentUser(storage)) = "student"
           THEN {"/", "/student-dashboard"}
         ELSE {"/"}
    ELSE {"/", "/login", "/register"}

\* updateBodyClass
updateBodyClass(p) == p = "/tasks" \/ p = "/student-dashboard"

\* the user an initializer closes over: () => initializeTasksView(user) and
\* () => initializeStudentDashboard(user); the form initializers take none
BoundUser(d) ==
  IF d.viewInitializer \in {"initializeTasksView", "initializeStudentDashboard"}
    THEN d.user ELSE None

\* the loadView call a dispatch suspends on, with what the dispatch still
\* reads once it resumes (viewInitializer with the user it closes over, and
\* isAuth); its fetch is pending.  requests, rendered and inits record what
\* this navigation fetched, wrote into appRoot and how often it called its
\* initializer; latest tells whether no later navigation has started
NewLoad(d) ==
  [viewPath |-> d.viewPath, viewInitializer |-> d.viewInitializer,
   user |-> BoundUser(d), isAuth |-> d.isAuth, pc |-> "fetch",
   requests |-> <<d.viewPath>>, rendered |-> <<>>, inits |-> 0,
   latest |-> TRUE]

\* the pending loads once a newer navigation has started: none of them
\* belongs to the latest navigation any more
Superseded(ls) == [i \in 1..Len(ls) |-> [ls[i] EXCEPT !.latest = FALSE]]

\* the loads a chain leaves pending: a called dispatch reaches its loadView
\* before its caller resumes, so the last dispatch's load is issued first
RECURSIVE StartedLoads(_)
StartedLoads(c) ==
  IF c = <<>> THEN <<>>
  ELSE StartedLoads(Tail(c)) \o
       (IF Head(c).load THEN <<NewLoad(Head(c))>> ELSE <<>>)

\* one run of handleLocation on location p with the redirect chain it
\* performs; pushed: it is called by navigateTo(p), else by popstate or
\* DOMContentLoaded
Dispatch(p, storage, pushed) ==
  LET c == Chain(p, storage, pushed, MaxChain)
      started == StartedLoads(c)
  IN /\ Len(loads) + Len(started) <= MaxLoads
     /\ path' = c[Len(c)].path
     /\ nav' = renderNavbar(storage)
     /\ dashboardView' = updateBodyClass(c[Len(c)].path)
     /\ chain' = c
     /\ loads' = Superseded(loads) \o started

\* the sequence s without its i-th element
RemoveAt(s, i) == SubSeq(s, 1, i - 1) \o SubSeq(s, i + 1, Len(s))

\* appRoot before anything was rendered into it
EmptyMount == [html |-> "", logoutBtn |-> FALSE, listeners |-> "null"]

\* appRoot.innerHTML = html: the old content, the logout button and the
\* elements that carried listeners are gone
SetInnerHTML(html) == [html |-> html, logoutBtn |-> FALSE, listeners |-> "null"]

\* the initializers: each looks its elements up in the document and returns
\* when they are absent; otherwise it attaches its listeners there
runInitializer(viewInitializer, m) ==
  CASE viewInitializer = "initializeLoginForm"
         /\ m.html = routes["/login"] -> [m EXCEPT !.listeners = "login"]
    [] viewInitializer = "initializeRegisterForm"
         /\ m.html = routes["/register"] -> [m EXCEPT !.listeners = "register"]
    [] viewInitializer = "initializeTasksView"
         /\ m.html = routes["/tasks"] -> [m EXCEPT !.listeners = "tasks"]
    [] viewInitializer = "initializeStudentDashboard"
         /\ m.html = routes["/student-dashboard"] ->
           [m EXCEPT !.listeners = "student"]
    [] OTHER -> m

\* how often handleLocation calls the initializer once loadView has returned
InitializerCalls(viewInitializer) == IF viewInitializer # "null" THEN 1 ELSE 0

\* addLogoutButton, called when the dispatch had read a session
addLogoutButton(m) == [m EXCEPT !.logoutBtn = TRUE]

\* handleLocation after `await loadView(viewPath)` has returned
AfterLoadView(l, m) ==
  LET m1 == IF InitializerCalls(l.viewInitializer) > 0
              THEN runInitializer(l.viewInitializer, m) ELSE m
  IN IF l.isAuth THEN addLogoutButton(m1) ELSE m1

\* Rendered with a generation token: a superseded navigation's completion
\* is discarded
Rendered_DiscardStale(i, html) ==
  LET l == loads[i]
  IN /\ mount' = IF l.latest THEN AfterLoadView(l, SetInnerHTML(html)) ELSE mount
     /\ settled' = Some([l EXCEPT !.pc = "done",
                              !.rendered = Append(@, html),
                              !.inits = @ + InitializerCalls(l.viewInitializer)])
     /\ loads' = RemoveAt(loads, i)

\* loadView writes html into appRoot and returns; its dispatch resumes in
\* the same turn of the event loop
Rendered(i, html) ==
  LET l == loads[i]
  IN /\ mount' = AfterLoadView(l, SetInnerHTML(html))
     /\ settled' = Some([l EXCEPT !.pc = "done",
                              !.rendered = Append(@, html),
                              !.inits = @ + InitializerCalls(l.viewInitializer)])
     /\ loads' = RemoveAt(loads, i)

\* the URL loadView fetches in its catch block
FallbackView == routes["/404"]

\* loadView's catch block: the pending load after a failed first fetch
CatchFetch(l) ==
  [l EXCEPT !.pc = "fetch404", !.requests = Append(@, FallbackView)]

\* ------------------------------------------------------------ actions
\* DOMContentLoaded: the first dispatch, on the location the page was opened at
PageLoad ==
  /\ ~booted
  /\ booted' = TRUE
  /\ Dispatch(path, localStorage, FALSE)
  /\ settled' = None
  /\ UNCHANGED <<localStorage, users, mount, logins>>
  /\ last' = None
  /\ UNCHANGED <<regs, dataVars>>

\* a click on a link of the page: navigateTo(href)
LinkClick(p) ==
  /\ booted
  /\ Dispatch(p, localStorage, TRUE)
  /\ settled' = None
  /\ UNCHANGED <<localStorage, users, booted, mount, logins>>
  /\ last' = None
  /\ UNCHANGED <<regs, dataVars>>

\* popstate (back / forward): the location is already p, handleLocation runs
PopState(p) ==
  /\ booted
  /\ Dispatch(p, localStorage, FALSE)
  /\ settled' = None
  /\ UNCHANGED <<localStorage, users, booted, mount, logins>>
  /\ last' = None
  /\ UNCHANGED <<regs, dataVars>>

\* a reload that loses the stored session, as sessionStorage of a new tab
Reload_ForgetsSession ==
  /\ booted
  /\ booted' = FALSE
  /\ path' = path
  /\ nav' = {}
  /\ dashboardView' = FALSE
  /\ mount' = EmptyMount
  /\ loads' = <<>>
  /\ logins' = <<>>
  /\ chain' = <<>>
  /\ settled' = None
  /\ regs' = <<>>
  /\ last' = None
  /\ localStorage' = None
  /\ UNCHANGED <<users, dataVars>>

\* the page is reloaded: the document and every pending handler are gone,
\* the location and localStorage stay
Reload ==
  /\ booted
  /\ booted' = FALSE
  /\ path' = path
  /\ nav' = {}
  /\ dashboardView' = FALSE
  /\ mount' = EmptyMount
  /\ loads' = <<>>
  /\ logins' = <<>>
  /\ chain' = <<>>
  /\ settled' = None
  /\ regs' = <<>>
  /\ last' = None
  /\ UNCHANGED <<localStorage, users, dataVars>>

\* loadView: fetch(viewPath) gave a success response and its text was read
FetchOk(i) ==
  /\ loads[i].pc = "fetch"
  /\ Rendered(i, loads[i].viewPath)
  /\ UNCHANGED <<localStorage, users, path, booted, nav, dashboardView, logins,
                 chain>>
  /\ last' = None
  /\ UNCHANGED <<regs, dataVars>>

\* loadView: fetch(viewPath) rejected, answered with a non-success status, or
\* its text could not be read: the catch block fetches the 404 page
FetchFail(i) ==
  /\ loads[i].pc = "fetch"
  /\ loads' = [loads EXCEPT ![i] = CatchFetch(loads[i])]
  /\ settled' = None
  /\ UNCHANGED <<localStorage, users, path, booted, nav, dashboardView, mount,
                 logins, chain>>
  /\ last' = None
  /\ UNCHANGED <<regs, dataVars>>

\* loadView's catch block: the fallback fetch gave a response (ok is not
\* looked at) and its text was read
Fetch404Body(i, body) ==
  /\ loads[i].pc = "fetch404"
  /\ Rendered(i, body)
  /\ UNCHANGED <<localStorage, users, path, booted, nav, dashboardView, logins,
                 chain>>
  /\ last' = None
  /\ UNCHANGED <<regs, dataVars>>

\* loadView's catch block: the fallback fetch (or reading its text) rejected;
\* nothing catches it, loadView and its handleLocation end rejected
Fetch404Reject(i) ==
  /\ loads[i].pc = "fetch404"
  /\ settled' = Some([loads[i] EXCEPT !.pc = "rejected"])
  /\ loads' = RemoveAt(loads, i)
  /\ UNCHANGED <<localStorage, users, path, booted, nav, dashboardView, mount,
                 logins, chain>>
  /\ last' = None
  /\ UNCHANGED <<regs, dataVars>>

\* the login form's submit listener up to `await handleLogin(email, password)`
LoginSubmit(cred) ==
  /\ booted
  /\ mount.listeners = "login"
  /\ Len(logins) < MaxLogins
  /\ logins' = Append(logins, [email |-> cred[1], password |-> cred[2]])
  /\ settled' = None
  /\ UNCHANGED <<localStorage, users, path, booted, nav, dashboardView, mount,
                 loads, chain>>
  /\ last' = None
  /\ UNCHANGED <<regs, dataVars>>

\* MatchingUsers by a store that ignores the password parameter
MatchingUsers_ByEmail(req) ==
  { u \in users : u.email = req.email }

\* handleLogin: the users the store returns for ?email=..&password=..
MatchingUsers(req) ==
  { u \in users : u.email = req.email /\ u.password = req.password }

\* handleLogin got its answer: exactly one user is a success, saveUserInfo
\* and then navigateTo("/tasks") in the submit listener
LoginSucceeds(i) ==
  /\ Cardinality(MatchingUsers(logins[i])) = 1
  /\ LET user == CHOOSE u \in MatchingUsers(logins[i]) : TRUE
     IN /\ localStorage' = saveUserInfo(user)
        /\ Dispatch("/tasks", saveUserInfo(user), TRUE)
        /\ last' = Some([op |-> "handleLogin", result |-> TRUE, user |-> user,
                         alert |-> ""])
  /\ logins' = RemoveAt(logins, i)
  /\ settled' = None
  /\ UNCHANGED <<users, booted, mount, regs, dataVars>>

\* handleLogin returned false (no single match, a non-success status or a
\* rejected fetch): the listener alerts and nothing else changes
LoginFails(i) ==
  /\ logins' = RemoveAt(logins, i)
  /\ settled' = None
  /\ last' = Some([op |-> "handleLogin", result |-> FALSE,
                   alert |-> "Invalid credentials. Please try again"])
  /\ UNCHANGED <<localStorage, users, path, booted, nav, dashboardView, mount,
                 loads, chain, regs, dataVars>>

\* a click on the logout button: logOut, renderNavbar, navigateTo("/login")
LogoutClick ==
  /\ booted
  /\ mount.logoutBtn
  /\ localStorage' = logOut
  /\ Dispatch("/login", logOut, TRUE)
  /\ settled' = None
  /\ last' = Some([op |-> "logOut", alert |-> ""])
  /\ UNCHANGED <<users, booted, mount, logins, regs, dataVars>>

\* ------------------------------------------ authController: handleRegister
\* new User(email, password): the role defaults to student
User(email, password) ==
  [email |-> email, password |-> password, role |-> "student"]

\* the register form's submit listener up to handleRegister's first await,
\* the request for the users with this email
RegisterSubmit(cred) ==
  /\ booted
  /\ mount.listeners = "register"
  /\ Len(regs) < MaxRegs
  /\ regs' = Append(regs, [email |-> cred[1], password |-> cred[2],
                           pc |-> "check"])
  /\ settled' = None
  /\ last' = None
  /\ UNCHANGED <<localStorage, users, path, booted, nav, dashboardView, mount,
                 loads, logins, chain, dataVars>>

\* ExistingUsers by a check that also sends the password
ExistingUsers_ByEmailAndPassword(req) ==
  { u \in users : u.email = req.email /\ u.password = req.password }

\* the users the store returns for ?email=..
ExistingUsers(req) == { u \in users : u.email = req.email }

\* the check was answered with at least one user: handleRegister alerts and
\* returns null, the listener does nothing more
RegisterRefused(i) ==
  /\ regs[i].pc = "check"
  /\ ExistingUsers(regs[i]) # {}
  /\ regs' = RemoveAt(regs, i)
  /\ settled' = None
  /\ last' = Some([op |-> "handleRegister", result |-> FALSE,
                   email |-> regs[i].email, sent |-> FALSE,
                   alert |-> "A user with this email already exists."])
  /\ UNCHANGED <<localStorage, users, path, booted, nav, dashboardView, mount,
                 loads, logins, chain, dataVars>>

\* the check was answered with no user: handleRegister builds the User and
\* sends the POST
RegisterChecked(i) ==
  /\ regs[i].pc = "check"
  /\ ExistingUsers(regs[i]) = {}
  /\ regs' = [regs EXCEPT ![i].pc = "create"]
  /\ settled' = None
  /\ last' = None
  /\ UNCHANGED <<localStorage, users, path, booted, nav, dashboardView, mount,
                 loads, logins, chain, dataVars>>

\* one of handleRegister's two requests failed (a rejected fetch, a body that
\* is no JSON, a non-success status of the POST): the catch block logs and
\* returns null, no alert
RegisterFails(i) ==
  /\ regs' = RemoveAt(regs, i)
  /\ settled' = None
  /\ last' = Some([op |-> "handleRegister", result |-> FALSE,
                   email |-> regs[i].email, sent |-> regs[i].pc = "create",
                   alert |-> ""])
  /\ UNCHANGED <<localStorage, users, path, booted, nav, dashboardView, mount,
                 loads, logins, chain, dataVars>>

\* the id the store gives to the next created user
NextUserId == 1 + CHOOSE n \in { u.id : u \in users } :
                    \A u \in users : u.id <= n

\* POST /users: the store adds the body under a new id
PostUser(us, id, body) ==
  us \cup { [id |-> id, email |-> body.email, password |-> body.password,
             role |-> body.role] }

\* the POST was answered with the created user: the listener alerts and
\* calls navigateTo("/login")
RegisterCreated(i) ==
  LET newUser == User(regs[i].email, regs[i].password)
  IN /\ regs[i].pc = "create"
     /\ Cardinality(users) < MaxUsers
     /\ users' = PostUser(users, NextUserId, newUser)
     /\ Dispatch("/login", localStorage, TRUE)
     /\ regs' = RemoveAt(regs, i)
     /\ settled' = None
     /\ last' = Some([op |-> "handleRegister", result |-> TRUE,
                      email |-> regs[i].email, sent |-> TRUE,
                      alert |-> "Registration successful! Please log in."])
     /\ UNCHANGED <<localStorage, booted, mount, logins, dataVars>>

\* ------------------------------------------------- values of the pages
\* the values a course field holds in the page and in the store's JSON: a
\* number, a string (the characters of a form field) or null; NaN exists in
\* the page only
Num(n) == [number |-> n]
Str(s) == [string |-> s]
Null == [null |-> TRUE]
NaN == [nan |-> TRUE]

Digits == <<"0", "1", "2", "3", "4", "5", "6", "7", "8", "9">>
IsDigit(c) == \E d \in 1..10 : Digits[d] = c
DigitValue(c) == (CHOOSE d \in 1..10 : Digits[d] = c) - 1

\* the longest prefix of digits of the characters s
RECURSIVE LeadingDigits(_)
LeadingDigits(s) ==
  IF s # <<>> /\ IsDigit(Head(s))
    THEN <<Head(s)>> \o LeadingDigits(Tail(s)) ELSE <<>>

\* the number a sequence of digits denotes in base 10
RECURSIVE DecimalValue(_)
DecimalValue(ds) ==
  IF ds = <<>> THEN 0
  ELSE 10 * DecimalValue(SubSeq(ds, 1, Len(ds) - 1)) + DigitValue(ds[Len(ds)])

\* parseInt reading the first digit only
parseInt_FirstDigit(text) ==
  IF LeadingDigits(text) = <<>> THEN NaN
  ELSE Num(DigitValue(Head(text)))

\* parseInt(text, 10) on the characters of a form field: the leading digits,
\* NaN when there is none
parseInt(text) ==
  IF LeadingDigits(text) = <<>> THEN NaN
  ELSE Num(DecimalValue(LeadingDigits(text)))

\* JSON.stringify writes NaN as null; response.json() reads the rest back
JSONvalue(v) == IF v = NaN THEN Null ELSE v

\* the number `<` converts its right operand to: null is 0, the empty string
\* is 0, a string of digits is its value, any other string is NaN
ToNumber(v) ==
  IF "number" \in DOMAIN v THEN v
  ELSE IF "null" \in DOMAIN v THEN Num(0)
  ELSE IF "string" \in DOMAIN v
    THEN IF v.string = <<>> THEN Num(0)
         ELSE IF LeadingDigits(v.string) = v.string
           THEN Num(DecimalValue(v.string))
         ELSE NaN
  ELSE NaN

\* n < v in the page, n a number: false when v converts to NaN
LessThan(n, v) == ToNumber(v) # NaN /\ n < ToNumber(v).number

\* ------------------------------------------------------- models/course.js
\* new Course(title, description, category, capacity, instructorId)
Course(title, description, category, capacity, instructorId) ==
  [title |-> title, description |-> description, category |-> category,
   capacity |-> parseInt(capacity), instructorId |-> parseInt(instructorId),
   enrolledStudents |-> <<>>]

\* -------------------------------------------------- the courses endpoint
\* the position of the course with this id in a course list, 0 when absent
\* (courses.find(c => c.id == courseId), /courses/:id)
Find(cs, id) ==
  IF \E i \in 1..Len(cs) : cs[i].id = id
    THEN CHOOSE i \in 1..Len(cs) : cs[i].id = id
    ELSE 0

\* getAllCourses: the stored list, [] when the request failed
getAllCourses(ok) == IF ok THEN courses ELSE <<>>

\* PatchEnrolled by a store that keeps its list when the new one is longer
\* than the capacity
PatchEnrolled_WithinCapacity(cs, id, newStudentList) ==
  IF LessThan(Len(newStudentList) - 1, cs[Find(cs, id)].capacity)
    THEN [cs EXCEPT ![Find(cs, id)].enrolledStudents = newStudentList]
    ELSE cs

\* PATCH /courses/:id with body {enrolledStudents: newStudentList}
PatchEnrolled(cs, id, newStudentList) ==
  [cs EXCEPT ![Find(cs, id)].enrolledStudents = newStudentList]

\* ----------------------------------- router.js: initializeStudentDashboard
\* course.enrolledStudents.includes(currentUser.id)
isEnrolled(course, currentUser) ==
  \E i \in 1..Len(course.enrolledStudents) :
    course.enrolledStudents[i] = currentUser.id

\* course.enrolledStudents.length < course.capacity
hasCapacity(course) == LessThan(Len(course.enrolledStudents), course.capacity)

\* EnrollDisabled looking at the enrolment only, not at the capacity
EnrollDisabled_EnrolledOnly(course, currentUser) ==
  isEnrolled(course, currentUser)

\* the disabled attribute of the enroll button
EnrollDisabled(course, currentUser) ==
  isEnrolled(course, currentUser) \/ ~hasCapacity(course)

\* the text of the enroll button
EnrollLabel(course, currentUser) ==
  IF isEnrolled(course, currentUser) THEN "Already Enrolled"
  ELSE IF hasCapacity(course) THEN "Enroll"
  ELSE "Full"

\* renderAvailableCourses: one card per course, in list order; a card shows
\* the title, the count and the capacity and carries the enroll button.
\* enrolledStudents and userId record what the card was rendered from
renderAvailableCourses(cs, currentUser) ==
  [i \in 1..Len(cs) |->
     [id |-> cs[i].id, title |-> cs[i].title,
      count |-> Len(cs[i].enrolledStudents), capacity |-> cs[i].capacity,
      disabled |-> EnrollDisabled(cs[i], currentUser),
      label |-> EnrollLabel(cs[i], currentUser),
      enrolledStudents |-> cs[i].enrolledStudents,
      userId |-> currentUser.id]]

\* renderMyCourses without the filter
renderMyCourses_AllCourses(cs, currentUser) ==
  [i \in 1..Len(cs) |-> [id |-> cs[i].id, title |-> cs[i].title]]

\* renderMyCourses: one card with an unenroll button per course the user is
\* enrolled in
renderMyCourses(cs, currentUser) ==
  LET mineOf(c) == isEnrolled(c, currentUser)
      enrolledCourses == SelectSeq(cs, mineOf)
  IN [i \in 1..Len(enrolledCourses) |->
        [id |-> enrolledCourses[i].id, title |-> enrolledCourses[i].title]]

\* the tabs showing the student dashboard
Tabs == 1..NumTabs

\* a tab whose student dashboard fragment has nothing rendered into its
\* lists; storage is the value under USER_INFO_KEY in the tab's browser
ClosedDashboard(storage) ==
  [storage |-> storage, available |-> <<>>, mine |-> <<>>]

\* the course form with every field at its default
EmptyForm ==
  [title |-> "", description |-> "", category |-> "", capacity |-> <<>>,
   instructorId |-> <<>>]

\* the management view before anything was rendered into it: list is
\* #course-list, options the instructor options after the placeholder,
\* editingId the form's data-editing-id attribute, cancelBtns the number of
\* .cancel-btn elements in the form, submitText the text of the submit
\* button, form the values in the fields; cancelled records that Cancel was
\* clicked and neither Edit nor submit since
ClosedManagement ==
  [list |-> <<>>, options |-> <<>>, editingId |-> None, cancelBtns |-> 0,
   submitText |-> "Create Course", form |-> EmptyForm, cancelled |-> FALSE]

\* loadStudentDashboard up to `await getAllCourses()`: nothing is fetched
\* when no session is stored
LoadStudentDashboardCall(t) ==
  IF getCurrentUser(dash[t].storage) = None THEN <<>>
  ELSE <<[tab |-> t, op |-> "loadStudentDashboard", pc |-> "getAllCourses",
          courseId |-> 0, user |-> getCurrentUser(dash[t].storage),
          list |-> <<>>]>>

\* a click on the enabled enroll button of card k in tab t: handleEnrollClick
\* up to `await getAllCourses()` (a disabled button gets no click)
EnrollClick(t, k) ==
  /\ k \in 1..Len(dash[t].available)
  /\ ~dash[t].available[k].disabled
  /\ Len(calls) < MaxCalls
  /\ calls' = Append(calls,
       [tab |-> t, op |-> "handleEnrollClick", pc |-> "getAllCourses",
        courseId |-> dash[t].available[k].id,
        user |-> getCurrentUser(dash[t].storage), list |-> <<>>])
  /\ last' = None
  /\ UNCHANGED <<localStorage, users, path, booted, nav, dashboardView, mount,
                 loads, logins, chain, settled, regs, courses, nextId, dash,
                 admin, adminCalls>>

\* handleEnrollClick got the course list: it appends the user's id to the
\* list it read and calls enrollInCourse, or ends when the course or the
\* session is gone
EnrollRead(i, ok) ==
  /\ calls[i].op = "handleEnrollClick" /\ calls[i].pc = "getAllCourses"
  /\ LET cs == getAllCourses(ok)
         k == Find(cs, calls[i].courseId)
     IN IF k # 0 /\ calls[i].user # None
          THEN /\ Len(cs[k].enrolledStudents) < MaxEnrolled
               /\ calls' = [calls EXCEPT ![i].pc = "enrollInCourse",
                              ![i].list = Append(cs[k].enrolledStudents,
                                                 calls[i].user[1].id)]
          ELSE calls' = RemoveAt(calls, i)
  /\ last' = None
  /\ UNCHANGED <<localStorage, users, path, booted, nav, dashboardView, mount,
                 loads, logins, chain, settled, regs, courses, nextId, dash,
                 admin, adminCalls>>

\* enrollInCourse got its answer: the store has replaced the course's list by
\* the list sent (or the request failed: null); on success the handler calls
\* loadStudentDashboard
PatchAnswered(i, ok) ==
  LET c == calls[i]
      k == Find(courses, c.courseId)
  IN /\ c.pc = "enrollInCourse"
     /\ ok => k # 0
     /\ IF ok
          THEN /\ courses' = PatchEnrolled(courses, c.courseId, c.list)
               /\ calls' = RemoveAt(calls, i) \o LoadStudentDashboardCall(c.tab)
               /\ last' = Some([op |-> c.op, tab |-> c.tab,
                                userId |-> c.user[1].id, courseId |-> c.courseId,
                                before |-> courses[k].enrolledStudents,
                                sent |-> c.list, alert |-> ""])
          ELSE /\ courses' = courses
               /\ calls' = RemoveAt(calls, i)
               /\ last' = None
     /\ UNCHANGED <<localStorage, users, path, booted, nav, dashboardView,
                    mount, loads, logins, chain, settled, regs, nextId, dash,
                    admin, adminCalls>>

\* enrollInCourse called by handleEnrollClick got its answer
EnrollWritten(i, ok) ==
  calls[i].op = "handleEnrollClick" /\ PatchAnswered(i, ok)

\* a click on the unenroll button of card k in tab t: handleUnenrollClick up
\* to `await getAllCourses()`
UnenrollClick(t, k) ==
  /\ k \in 1..Len(dash[t].mine)
  /\ Len(calls) < MaxCalls
  /\ calls' = Append(calls,
       [tab |-> t, op |-> "handleUnenrollClick", pc |-> "getAllCourses",
        courseId |-> dash[t].mine[k].id,
        user |-> getCurrentUser(dash[t].storage), list |-> <<>>])
  /\ last' = None
  /\ UNCHANGED <<localStorage, users, path, booted, nav, dashboardView, mount,
                 loads, logins, chain, settled, regs, courses, nextId, dash,
                 admin, adminCalls>>

\* enrolledStudents.filter(studentId => studentId !== currentUser.id)
WithoutUser(list, currentUser) ==
  LET other(studentId) == studentId # currentUser.id
  IN SelectSeq(list, other)

\* handleUnenrollClick got the course list: it filters the user's id out of
\* the list it read and calls unenrollFromCourse
UnenrollRead(i, ok) ==
  /\ calls[i].op = "handleUnenrollClick" /\ calls[i].pc = "getAllCourses"
  /\ LET cs == getAllCourses(ok)
         k == Find(cs, calls[i].courseId)
     IN IF k # 0 /\ calls[i].user # None
          THEN calls' = [calls EXCEPT ![i].pc = "enrollInCourse",
                           ![i].list = WithoutUser(cs[k].enrolledStudents,
                                                   calls[i].user[1])]
          ELSE calls' = RemoveAt(calls, i)
  /\ last' = None
  /\ UNCHANGED <<localStorage, users, path, booted, nav, dashboardView, mount,
                 loads, logins, chain, settled, regs, courses, nextId, dash,
                 admin, adminCalls>>

\* unenrollFromCourse (it calls enrollInCourse) got its answer
UnenrollWritten(i, ok) ==
  calls[i].op = "handleUnenrollClick" /\ PatchAnswered(i, ok)

\* the store answers the GET of a loadStudentDashboard call: the response
\* carries the course list as it is now, and is on its way
GetCoursesServed(i) ==
  /\ calls[i].op = "loadStudentDashboard" /\ calls[i].pc = "getAllCourses"
  /\ calls' = [calls EXCEPT ![i].pc = "response", ![i].list = courses]
  /\ last' = None
  /\ UNCHANGED <<localStorage, users, path, booted, nav, dashboardView, mount,
                 loads, logins, chain, settled, regs, courses, nextId, dash,
                 admin, adminCalls>>

\* loadStudentDashboard got the course list (the response's, or [] when the
\* request failed) and renders both lists for the user it read before the
\* request
StudentDashboardLoaded(i, ok) ==
  LET c == calls[i]
      cs == IF ok THEN c.list ELSE <<>>
  IN /\ c.op = "loadStudentDashboard"
     /\ ok => c.pc = "response"
     /\ dash' = [dash EXCEPT
          ![c.tab].available = renderAvailableCourses(cs, c.user[1]),
          ![c.tab].mine = renderMyCourses(cs, c.user[1])]
     /\ calls' = RemoveAt(calls, i)
     /\ last' = None
     /\ UNCHANGED <<localStorage, users, path, booted, nav, dashboardView,
                    mount, loads, logins, chain, settled, regs, courses,
                    nextId, admin, adminCalls>>

\* ---------------------------------------- router.js: initializeTasksView
\* getAllInstructors: the stored list, [] when the request failed
getAllInstructors(ok) == IF ok THEN InitialInstructors ELSE <<>>

\* the decimal digits of a natural number
RECURSIVE ToDigits(_)
ToDigits(n) ==
  IF n < 10 THEN <<Digits[n + 1]>>
  ELSE ToDigits(n \div 10) \o <<Digits[(n % 10) + 1]>>

\* String(v), as an assignment to a field's .value or to option.value
\* converts it: a number gives its digits, null the empty string
ToText(v) ==
  IF "number" \in DOMAIN v THEN ToDigits(v.number)
  ELSE IF "string" \in DOMAIN v THEN v.string
  ELSE <<>>

\* renderCourses: one card per course with its edit and delete buttons
renderCourses(cs) ==
  [i \in 1..Len(cs) |->
     [id |-> cs[i].id, title |-> cs[i].title,
      description |-> cs[i].description, category |-> cs[i].category]]

\* populateInstructorSelect: the option values after the placeholder
populateInstructorSelect(instructors) ==
  [i \in 1..Len(instructors) |-> ToText(Num(instructors[i].id))]

\* the value a select has after `select.value = v`: v when an option (or the
\* empty placeholder) carries it, the empty string otherwise
SelectValue(options, v) ==
  IF v = <<>> \/ \E i \in 1..Len(options) : options[i] = v THEN v ELSE <<>>

\* resetCourseForm: the first .cancel-btn, if any, is removed
resetCourseForm(a) ==
  [a EXCEPT !.form = EmptyForm, !.editingId = None,
            !.submitText = "Create Course",
            !.cancelBtns = IF @ > 0 THEN @ - 1 ELSE 0]

\* loadAdminDashboard up to `await Promise.all([...])`
LoadAdminDashboardCall ==
  [op |-> "loadAdminDashboard", courseId |-> 0, form |-> EmptyForm,
   body |-> <<>>]

\* the body of createCourse's POST: JSON.stringify(new Course(...))
CreateBody(f) ==
  LET c == Course(f.title, f.description, f.category, f.capacity,
                  f.instructorId)
  IN [c EXCEPT !.capacity = JSONvalue(@), !.instructorId = JSONvalue(@)]

\* the body of updateCourse's PATCH: JSON.stringify(courseData), the five
\* field values as the form holds them
UpdateBody(f) ==
  [title |-> f.title, description |-> f.description, category |-> f.category,
   capacity |-> Str(f.capacity), instructorId |-> Str(f.instructorId)]

\* the forms a submit can find: one typed just before, or the form as the
\* edit button filled it; the instructor is one of the rendered options
SubmittedForms ==
  { f \in FormInputs \cup (IF admin.editingId # None THEN {admin.form} ELSE {}) :
      SelectValue(admin.options, f.instructorId) = f.instructorId }

\* a submit handler without the edit branch
SubmitRequest_AlwaysCreate(editingId, f) ==
  [op |-> "createCourse", courseId |-> 0, form |-> f,
   body |-> <<CreateBody(f)>>]

\* handleCourseFormSubmit: the request it sends for the flag it read
SubmitRequest(editingId, f) ==
  IF editingId # None
    THEN [op |-> "updateCourse", courseId |-> editingId[1],
          form |-> f, body |-> <<UpdateBody(f)>>]
    ELSE [op |-> "createCourse", courseId |-> 0, form |-> f,
          body |-> <<CreateBody(f)>>]

\* submit of the course form: handleCourseFormSubmit up to its await, an
\* update when data-editing-id is set and a create otherwise
CourseFormSubmit(f) ==
  /\ f \in SubmittedForms
  /\ Len(adminCalls) < MaxAdminCalls
  /\ admin' = [admin EXCEPT !.form = f, !.cancelled = FALSE]
  /\ adminCalls' = Append(adminCalls, SubmitRequest(admin.editingId, f))
  /\ last' = None
  /\ UNCHANGED <<localStorage, users, path, booted, nav, dashboardView, mount,
                 loads, logins, chain, settled, regs, courses, nextId, dash,
                 calls>>

\* POST /courses: the store appends the body under a new id
PostCourse(cs, id, body) ==
  Append(cs, [id |-> id, title |-> body.title,
              description |-> body.description, category |-> body.category,
              capacity |-> body.capacity, instructorId |-> body.instructorId,
              enrolledStudents |-> body.enrolledStudents])

\* an update that replaces the course by the body under its id, as a PUT
\* does: the enrolment list is the one of a new course
PatchCourse_Replace(cs, id, body) ==
  [cs EXCEPT ![Find(cs, id)] =
     [@ EXCEPT !.title = body.title, !.description = body.description,
               !.category = body.category, !.capacity = body.capacity,
               !.instructorId = body.instructorId,
               !.enrolledStudents = <<>>]]

\* PATCH /courses/:id with the five form fields: the other fields stay
PatchCourse(cs, id, body) ==
  [cs EXCEPT ![Find(cs, id)] =
     [@ EXCEPT !.title = body.title, !.description = body.description,
               !.category = body.category, !.capacity = body.capacity,
               !.instructorId = body.instructorId]]

\* AfterSubmit reloading the dashboard after a failure as well
AfterSubmit_ReloadAlways(i, ok, what) ==
  IF ok
    THEN /\ admin' = resetCourseForm(admin)
         /\ adminCalls' = Append(RemoveAt(adminCalls, i), LoadAdminDashboardCall)
         /\ last' = Some(what)
    ELSE /\ admin' = admin
         /\ adminCalls' = Append(RemoveAt(adminCalls, i), LoadAdminDashboardCall)
         /\ last' = Some([op |-> "handleCourseFormSubmit",
                          alert |-> "Operation failed. Please check the console."])

\* handleCourseFormSubmit after createCourse or updateCourse returned: on
\* success resetCourseForm and loadAdminDashboard, else the alert
AfterSubmit(i, ok, what) ==
  IF ok
    THEN /\ admin' = resetCourseForm(admin)
         /\ adminCalls' = Append(RemoveAt(adminCalls, i), LoadAdminDashboardCall)
         /\ last' = Some(what)
    ELSE /\ admin' = admin
         /\ adminCalls' = RemoveAt(adminCalls, i)
         /\ last' = Some([op |-> "handleCourseFormSubmit",
                          alert |-> "Operation failed. Please check the console."])

\* createCourse got its answer: the created course, or null
CreateAnswered(i, ok) ==
  LET c == adminCalls[i]
  IN /\ c.op = "createCourse"
     /\ ok => Len(courses) < MaxCourses /\ nextId <= MaxCourseId
     /\ courses' = IF ok THEN PostCourse(courses, nextId, c.body[1]) ELSE courses
     /\ nextId' = IF ok THEN nextId + 1 ELSE nextId
     /\ AfterSubmit(i, ok, [op |-> "createCourse", courseId |-> nextId,
                            form |-> c.form, alert |-> ""])
     /\ UNCHANGED <<localStorage, users, path, booted, nav, dashboardView,
                    mount, loads, logins, chain, settled, regs, dash, calls>>

\* updateCourse got its answer: the updated course, or null (a failed
\* request, or no course under this id any more)
UpdateAnswered(i, ok) ==
  LET c == adminCalls[i]
      k == Find(courses, c.courseId)
  IN /\ c.op = "updateCourse"
     /\ ok => k # 0
     /\ courses' = IF ok THEN PatchCourse(courses, c.courseId, c.body[1])
                   ELSE courses
     /\ AfterSubmit(i, ok, [op |-> "updateCourse", courseId |-> c.courseId,
                            form |-> c.form, before |-> <<courses[k]>>,
                            alert |-> ""])
     /\ UNCHANGED <<localStorage, users, path, booted, nav, dashboardView,
                    mount, loads, logins, chain, settled, regs, nextId, dash,
                    calls>>

\* a click on the delete button of card k: handleCourseListClick up to
\* `await deleteCourse(courseId)`
DeleteClick(k) ==
  /\ k \in 1..Len(admin.list)
  /\ Len(adminCalls) < MaxAdminCalls
  /\ adminCalls' = Append(adminCalls,
       [op |-> "deleteCourse", courseId |-> admin.list[k].id,
        form |-> EmptyForm, body |-> <<>>])
  /\ last' = None
  /\ UNCHANGED <<localStorage, users, path, booted, nav, dashboardView, mount,
                 loads, logins, chain, settled, regs, courses, nextId, dash,
                 calls, admin>>

\* DELETE /courses/:id
DeleteCourse(cs, id) == RemoveAt(cs, Find(cs, id))

\* deleteCourse got its answer: true and loadAdminDashboard, or false
DeleteAnswered(i, ok) ==
  LET c == adminCalls[i]
  IN /\ c.op = "deleteCourse"
     /\ ok => Find(courses, c.courseId) # 0
     /\ courses' = IF ok THEN DeleteCourse(courses, c.courseId) ELSE courses
     /\ adminCalls' = IF ok
          THEN Append(RemoveAt(adminCalls, i), LoadAdminDashboardCall)
          ELSE RemoveAt(adminCalls, i)
     /\ last' = IF ok
          THEN Some([op |-> "deleteCourse", courseId |-> c.courseId,
                     alert |-> ""])
          ELSE None
     /\ UNCHANGED <<localStorage, users, path, booted, nav, dashboardView,
                    mount, loads, logins, chain, settled, regs, nextId, dash,
                    calls, admin>>

\* a click on the edit button of card k: handleCourseListClick up to
\* `await getAllCourses()`
EditClick(k) ==
  /\ k \in 1..Len(admin.list)
  /\ Len(adminCalls) < MaxAdminCalls
  /\ adminCalls' = Append(adminCalls,
       [op |-> "editCourse", courseId |-> admin.list[k].id,
        form |-> EmptyForm, body |-> <<>>])
  /\ admin' = [admin EXCEPT !.cancelled = FALSE]
  /\ last' = None
  /\ UNCHANGED <<localStorage, users, path, booted, nav, dashboardView, mount,
                 loads, logins, chain, settled, regs, courses, nextId, dash,
                 calls>>

\* the form filled from courseToEdit, with the edit mode set
FillForm(a, course) ==
  [a EXCEPT
     !.form = [title |-> course.title, description |-> course.description,
               category |-> course.category,
               capacity |-> ToText(course.capacity),
               instructorId |-> SelectValue(a.options,
                                            ToText(course.instructorId))],
     !.editingId = Some(course.id),
     !.submitText = "Update Course"]

\* the edit branch: a cancel button is added when the form holds none
addCancelButton(a) ==
  IF a.cancelBtns = 0 THEN [a EXCEPT !.cancelBtns = 1] ELSE a

\* the edit branch got the course list: the form is filled when the course
\* is still there, and the cancel button is added in either case
EditRead(i, ok) ==
  LET c == adminCalls[i]
      cs == getAllCourses(ok)
      k == Find(cs, c.courseId)
      filled == IF k # 0 THEN FillForm(admin, cs[k]) ELSE admin
  IN /\ c.op = "editCourse"
     /\ admin' = addCancelButton(filled)
     /\ adminCalls' = RemoveAt(adminCalls, i)
     /\ last' = None
     /\ UNCHANGED <<localStorage, users, path, booted, nav, dashboardView,
                    mount, loads, logins, chain, settled, regs, courses,
                    nextId, dash, calls>>

\* a click on the cancel button: resetCourseForm
CancelClick ==
  /\ admin.cancelBtns > 0
  /\ admin' = [resetCourseForm(admin) EXCEPT !.cancelled = TRUE]
  /\ last' = None
  /\ UNCHANGED <<localStorage, users, path, booted, nav, dashboardView, mount,
                 loads, logins, chain, settled, regs, courses, nextId, dash,
                 calls, adminCalls>>

\* the store answers the GET /courses of a loadAdminDashboard call: the
\* response carries the course list as it is now, and is on its way
AdminCoursesServed(i) ==
  /\ adminCalls[i].op = "loadAdminDashboard" /\ adminCalls[i].body = None
  /\ adminCalls' = [adminCalls EXCEPT ![i].body = Some(courses)]
  /\ last' = None
  /\ UNCHANGED <<localStorage, users, path, booted, nav, dashboardView, mount,
                 loads, logins, chain, settled, regs, courses, nextId, dash,
                 calls, admin>>

\* loadAdminDashboard got both lists (the responses', or [] for a failed
\* request): renderCourses and populateInstructorSelect, which leaves the
\* placeholder option selected
AdminDashboardLoaded(i, okCourses, okInstructors) ==
  LET options == populateInstructorSelect(getAllInstructors(okInstructors))
      cs == IF okCourses THEN adminCalls[i].body[1] ELSE <<>>
  IN /\ adminCalls[i].op = "loadAdminDashboard"
     /\ okCourses => adminCalls[i].body # None
     /\ admin' = [admin EXCEPT
          !.list = renderCourses(cs),
          !.options = options,
          !.form.instructorId = <<>>]
     /\ adminCalls' = RemoveAt(adminCalls, i)
     /\ last' = None
     /\ UNCHANGED <<localStorage, users, path, booted, nav, dashboardView,
                    mount, loads, logins, chain, settled, regs, courses,
                    nextId, dash, calls>>

Init ==
  /\ localStorage \in {None} \cup { saveUserInfo(u) : u \in InitialUsers }
  /\ users = InitialUsers
  /\ path \in Paths
  /\ booted = FALSE
  /\ nav = {}
  /\ dashboardView = FALSE
  /\ mount = EmptyMount
  /\ loads = <<>>
  /\ logins = <<>>
  /\ chain = <<>>
  /\ settled = None
  /\ regs = <<>>
  /\ courses = InitialCourses
  /\ nextId = Len(InitialCourses) + 1
  /\ dash = [t \in Tabs |-> ClosedDashboard(None)]
  /\ calls = <<>>
  /\ admin = ClosedManagement
  /\ adminCalls = <<>>
  /\ last = None

Next ==
  \/ PageLoad
  \/ \E p \in Paths : LinkClick(p)
  \/ \E p \in Paths : PopState(p)
  \/ Reload
  \/ \E i \in 1..Len(loads) : FetchOk(i)
  \/ \E i \in 1..Len(loads) : FetchFail(i)
  \/ \E i \in 1..Len(loads), body \in {FallbackView, ErrorBody} : Fetch404Body(i, body)
  \/ \E i \in 1..Len(loads) : Fetch404Reject(i)
  \/ \E cred \in RouterCredentials : LoginSubmit(cred)
  \/ \E i \in 1..Len(logins) : LoginSucceeds(i)
  \/ \E i \in 1..Len(logins) : LoginFails(i)
  \/ LogoutClick

Spec == Init /\ [][Next]_vars

\* ------------------------------------------------ login and registration
\* the page is opened on the login or the registration form, with no
\* session; the fragments are served (the failures of loadView are in Spec)
AuthInit ==
  /\ localStorage = None
  /\ users = InitialUsers
  /\ path \in {"/login", "/register"}
  /\ booted = FALSE
  /\ nav = {}
  /\ dashboardView = FALSE
  /\ mount = EmptyMount
  /\ loads = <<>>
  /\ logins = <<>>
  /\ chain = <<>>
  /\ settled = None
  /\ regs = <<>>
  /\ courses = InitialCourses
  /\ nextId = Len(InitialCourses) + 1
  /\ dash = [t \in Tabs |-> ClosedDashboard(None)]
  /\ calls = <<>>
  /\ admin = ClosedManagement
  /\ adminCalls = <<>>
  /\ last = None

\* the (email, password) pairs typed into the login form once users register
AuthCredentials == Credentials \cup { r \in Registrations : r[1] = "new@academy.com" }

AuthNext ==
  \/ PageLoad
  \/ \E p \in {"/login", "/register"} : LinkClick(p)
  \/ Reload
  \/ \E i \in 1..Len(loads) : FetchOk(i)
  \/ \E cred \in AuthCredentials : LoginSubmit(cred)
  \/ \E i \in 1..Len(logins) : LoginSucceeds(i)
  \/ \E i \in 1..Len(logins) : LoginFails(i)
  \/ LogoutClick
  \/ \E cred \in Registrations : RegisterSubmit(cred)
  \/ \E i \in 1..Len(regs) : RegisterRefused(i)
  \/ \E i \in 1..Len(regs) : RegisterChecked(i)
  \/ \E i \in 1..Len(regs) : RegisterFails(i)
  \/ \E i \in 1..Len(regs) : RegisterCreated(i)

AuthSpec == AuthInit /\ [][AuthNext]_vars

\* ------------------------------------------- the dashboards on the store
\* the tab of the router above has rendered the student dashboard fragment
\* for a student session and initializeStudentDashboard has just run: the
\* listeners are attached, loadStudentDashboard is waiting for the course
\* list.  A second tab, when there is one, is in the same state, of the same
\* session or of another student's session in another browser; with nothing
\* stored its loadStudentDashboard has returned at once
DashInit ==
  /\ localStorage = saveUserInfo(Student)
  /\ users = InitialUsers \cup {SecondStudent}
  /\ path = "/student-dashboard"
  /\ booted = TRUE
  /\ nav = renderNavbar(localStorage)
  /\ dashboardView = updateBodyClass(path)
  /\ mount = AfterLoadView(NewLoad(handleLocation(path, localStorage, FALSE)),
                           SetInnerHTML(routes[path]))
  /\ loads = <<>>
  /\ logins = <<>>
  /\ chain = Chain(path, localStorage, FALSE, MaxChain)
  /\ settled = None
  /\ regs = <<>>
  /\ courses = InitialCourses
  /\ nextId = Len(InitialCourses) + 1
  /\ \E other \in {None, saveUserInfo(Student), saveUserInfo(SecondStudent)} :
       dash = [t \in Tabs |->
                 ClosedDashboard(IF t = 1 THEN localStorage ELSE other)]
  /\ calls = LoadStudentDashboardCall(1) \o LoadStudentDashboardCall(2)
  /\ admin = ClosedManagement
  /\ adminCalls = <<>>
  /\ last = None

DashNext ==
  \/ \E t \in Tabs, k \in 1..MaxCourses : EnrollClick(t, k)
  \/ \E i \in 1..Len(calls), ok \in BOOLEAN : EnrollRead(i, ok)
  \/ \E i \in 1..Len(calls), ok \in BOOLEAN : EnrollWritten(i, ok)
  \/ \E t \in Tabs, k \in 1..MaxCourses : UnenrollClick(t, k)
  \/ \E i \in 1..Len(calls), ok \in BOOLEAN : UnenrollRead(i, ok)
  \/ \E i \in 1..Len(calls), ok \in BOOLEAN : UnenrollWritten(i, ok)
  \/ \E i \in 1..Len(calls) : GetCoursesServed(i)
  \/ \E i \in 1..Len(calls), ok \in BOOLEAN : StudentDashboardLoaded(i, ok)

DashSpec == DashInit /\ [][DashNext]_vars

\* ------------------------------------------ the management view on the store
\* an administrator's tab has rendered the management fragment and
\* initializeTasksView has just run: the listeners are attached,
\* loadAdminDashboard is waiting for its two lists.  No student dashboard
\* is open; the student has enrolled in the course of the store before
AdminInit ==
  /\ localStorage = saveUserInfo(Administrator)
  /\ users = InitialUsers
  /\ path = "/tasks"
  /\ booted = TRUE
  /\ nav = renderNavbar(localStorage)
  /\ dashboardView = updateBodyClass(path)
  /\ mount = AfterLoadView(NewLoad(handleLocation(path, localStorage, FALSE)),
                           SetInnerHTML(routes[path]))
  /\ loads = <<>>
  /\ logins = <<>>
  /\ chain = Chain(path, localStorage, FALSE, MaxChain)
  /\ settled = None
  /\ regs = <<>>
  /\ courses = EnrolledCourses
  /\ nextId = Len(EnrolledCourses) + 1
  /\ dash = [t \in Tabs |-> ClosedDashboard(None)]
  /\ calls = <<>>
  /\ admin = ClosedManagement
  /\ adminCalls = <<LoadAdminDashboardCall>>
  /\ last = None

AdminNext ==
  \/ \E f \in FormInputs \cup {admin.form} : CourseFormSubmit(f)
  \/ \E i \in 1..Len(adminCalls), ok \in BOOLEAN : CreateAnswered(i, ok)
  \/ \E i \in 1..Len(adminCalls), ok \in BOOLEAN : UpdateAnswered(i, ok)
  \/ \E k \in 1..MaxCourses : DeleteClick(k)
  \/ \E i \in 1..Len(adminCalls), ok \in BOOLEAN : DeleteAnswered(i, ok)
  \/ \E k \in 1..MaxCourses : EditClick(k)
  \/ \E i \in 1..Len(adminCalls), ok \in BOOLEAN : EditRead(i, ok)
  \/ CancelClick
  \/ \E i \in 1..Len(adminCalls) : AdminCoursesServed(i)
  \/ \E i \in 1..Len(adminCalls), okCourses \in BOOLEAN, okInstructors \in BOOLEAN :
       AdminDashboardLoaded(i, okCourses, okInstructors)

AdminSpec == AdminInit /\ [][AdminNext]_vars

\* ------------------------------------------------------------- claims
LoginView == routes["/login"]
RegisterView == routes["/register"]
TasksView == routes["/tasks"]
StudentView == routes["/student-dashboard"]

\* every load the state knows of: the pending ones and the one that just ended
KnownLoads ==
  { loads[i] : i \in 1..Len(loads) } \cup { settled[i] : i \in 1..Len(settled) }

\* the load of the latest navigation ended in the last step, having got its
\* fragment with its first fetch
LatestLoadedFirstFetch ==
  /\ settled # None
  /\ settled[1].latest
  /\ settled[1].pc = "done"
  /\ settled[1].requests = <<settled[1].viewPath>>

\* the last chain started on a protected path with no session stored
ProtectedChainNoSession ==
  /\ chain # <<>>
  /\ ~chain[1].isAuth
  /\ chain[1].path \in {"/tasks", "/student-dashboard"}

\* C1 (as amended): a dispatch of /tasks or /student-dashboard started with no
\* session stored redirects to /login, the chain ends there with the login
\* fragment passed to loadView, no dispatch without a session ever loads a
\* protected fragment or gets its initializer, and the login fragment is in
\* the mount node once that load has got it with its first fetch.
C1_ProtectedRedirectsToLogin ==
  /\ ProtectedChainNoSession =>
       /\ Len(chain) = 2
       /\ chain[1].redirect = "/login" /\ ~chain[1].load
       /\ chain[2].path = "/login" /\ chain[2].pushed /\ path = "/login"
       /\ chain[2].redirect = "" /\ chain[2].load
       /\ chain[2].viewPath = LoginView
       /\ chain[2].viewInitializer = "initializeLoginForm"
       /\ LatestLoadedFirstFetch =>
            /\ settled[1].rendered = <<LoginView>>
            /\ mount.html = LoginView
            /\ mount.listeners = "login"
  /\ \A l \in KnownLoads :
       ~l.isAuth =>
         /\ l.viewPath \notin {TasksView, StudentView}
         /\ l.viewInitializer \notin
              {"initializeTasksView", "initializeStudentDashboard"}

\* C1 witness: the chain from a protected path without a session ended on
\* /login and its load has just rendered the login fragment
C1_Witness ==
  /\ ProtectedChainNoSession
  /\ chain[1].path = "/student-dashboard"
  /\ LatestLoadedFirstFetch
  /\ mount.html = LoginView

\* C1 as stated: whenever the load of such a chain has ended, the login
\* fragment is in the mount node
C1_Original ==
  (ProtectedChainNoSession /\ settled # None /\ settled[1].latest)
    => mount.html = LoginView

\* C2: a dispatch of /login or /register started with a session stored
\* redirects to /tasks and loads nothing, whatever the role; no dispatch that
\* read a session loads the login or register fragment or gets their
\* initializers.
C2_GuestOnlyRedirects ==
  /\ \A i \in 1..Len(chain) :
       (chain[i].isAuth /\ chain[i].path \in {"/login", "/register"}) =>
         /\ chain[i].redirect = "/tasks" /\ ~chain[i].load
         /\ i < Len(chain)
         /\ chain[i + 1].path = "/tasks" /\ chain[i + 1].pushed
  /\ \A l \in KnownLoads :
       l.isAuth =>
         /\ l.viewPath \notin {LoginView, RegisterView}
         /\ l.viewInitializer \notin
              {"initializeLoginForm", "initializeRegisterForm"}

\* C2 witness: /register was dispatched with the instructor's session stored
C2_Witness ==
  /\ chain # <<>>
  /\ chain[1].path = "/register"
  /\ chain[1].isAuth
  /\ RoleOf(chain[1].user) = "instructor"
  /\ chain[1].redirect = "/tasks"

\* C3: /tasks with an administrator session resolves to the management
\* fragment with initializeTasksView and no redirect; /tasks with a student
\* session redirects to /student-dashboard; the management fragment is only
\* ever loaded for an administrator.
C3_TasksByRole ==
  /\ \A i \in 1..Len(chain) :
       (chain[i].path = "/tasks" /\ chain[i].isAuth) =>
         /\ RoleOf(chain[i].user) = "administrator" =>
              /\ chain[i].redirect = "" /\ chain[i].load
              /\ chain[i].viewPath = TasksView
              /\ chain[i].viewInitializer = "initializeTasksView"
         /\ RoleOf(chain[i].user) = "student" =>
              /\ chain[i].redirect = "/student-dashboard" /\ ~chain[i].load
              /\ i < Len(chain) /\ chain[i + 1].path = "/student-dashboard"
  /\ \A l \in KnownLoads :
       (l.viewPath = TasksView \/ l.viewInitializer = "initializeTasksView")
         => RoleOf(l.user) = "administrator"

\* C3 witness: a student's dispatch of /tasks was redirected while an
\* administrator's load of the management fragment is still pending
C3_Witness ==
  /\ chain # <<>>
  /\ chain[1].path = "/tasks"
  /\ RoleOf(chain[1].user) = "student"
  /\ chain[1].redirect = "/student-dashboard"
  /\ \E i \in 1..Len(loads) : loads[i].viewPath = TasksView

\* the load of the latest navigation has just ended, whatever its outcome
LatestLoadEnded == settled # None /\ settled[1].latest

\* C4 (as amended): /student-dashboard with an administrator session redirects
\* to /tasks, where the management fragment is passed to loadView and is in
\* the mount node once that load has got it with its first fetch; with a
\* student session the student-dashboard fragment is passed to loadView with
\* initializeStudentDashboard and is in the mount node once got with the
\* first fetch; the student-dashboard fragment is only ever loaded for a
\* student.
C4_StudentDashboardByRole ==
  /\ (chain # <<>> /\ chain[1].path = "/student-dashboard" /\ chain[1].isAuth) =>
       /\ RoleOf(chain[1].user) = "administrator" =>
            /\ Len(chain) = 2
            /\ chain[1].redirect = "/tasks" /\ ~chain[1].load
            /\ chain[2].path = "/tasks" /\ path = "/tasks"
            /\ chain[2].redirect = "" /\ chain[2].load
            /\ chain[2].viewPath = TasksView
            /\ chain[2].viewInitializer = "initializeTasksView"
            /\ LatestLoadedFirstFetch =>
                 /\ mount.html = TasksView /\ mount.listeners = "tasks"
       /\ RoleOf(chain[1].user) = "student" =>
            /\ Len(chain) = 1
            /\ chain[1].redirect = "" /\ chain[1].load
            /\ chain[1].viewPath = StudentView
            /\ chain[1].viewInitializer = "initializeStudentDashboard"
            /\ LatestLoadedFirstFetch =>
                 /\ mount.html = StudentView /\ mount.listeners = "student"
  /\ \A l \in KnownLoads :
       (l.viewPath = StudentView
          \/ l.viewInitializer = "initializeStudentDashboard")
         => RoleOf(l.user) = "student"

\* C4 witness: an administrator's dispatch of /student-dashboard ended on
\* /tasks and its load has just rendered the management fragment
C4_Witness ==
  /\ chain # <<>>
  /\ chain[1].path = "/student-dashboard"
  /\ RoleOf(chain[1].user) = "administrator"
  /\ LatestLoadedFirstFetch
  /\ mount.html = TasksView

\* C4 as stated: once the load of such a chain has ended, the management
\* fragment (administrator) or the student-dashboard fragment (student) is
\* rendered
C4_Original ==
  (chain # <<>> /\ chain[1].path = "/student-dashboard" /\ LatestLoadEnded) =>
    /\ RoleOf(chain[1].user) = "administrator" => mount.html = TasksView
    /\ RoleOf(chain[1].user) = "student" => mount.html = StudentView

\* C5: the mount node holds the management fragment only while an
\* administrator session is stored and the student-dashboard fragment only
\* while a student session is stored.
C5_NoUnguardedView ==
  /\ mount.html = TasksView =>
       RoleOf(getCurrentUser(localStorage)) = "administrator"
  /\ mount.html = StudentView =>
       RoleOf(getCurrentUser(localStorage)) = "student"

\* the paths the switch of handleLocation names
MatchedPaths ==
  {"/", "/home", "/login", "/register", "/tasks", "/student-dashboard"}

\* C6: a dispatch of any path other than /, /home, /login, /register, /tasks
\* and /student-dashboard passes the not-found fragment to loadView, with no
\* redirect and no initializer, with or without a session.
C6_UnmatchedIsNotFound ==
  \A i \in 1..Len(chain) :
    chain[i].path \notin MatchedPaths =>
      /\ chain[i].redirect = "" /\ chain[i].load
      /\ chain[i].viewPath = routes["/404"]
      /\ chain[i].viewInitializer = "null"
      /\ i = Len(chain)

\* C6 witness: /courses was dispatched with a student session and its load
\* rendered the not-found fragment
C6_Witness ==
  /\ chain # <<>>
  /\ chain[1].path = "/courses"
  /\ RoleOf(chain[1].user) = "student"
  /\ LatestLoadedFirstFetch
  /\ mount.html = routes["/404"]

\* how often x occurs in the sequence q
Count(q, x) == Cardinality({ i \in 1..Len(q) : q[i] = x })

\* the first fetch of the load that just ended had failed
SettledAfterFailedFetch ==
  settled # None /\ Len(settled[1].requests) > 1

\* C7: when the fetch of the requested fragment fails, the not-found fragment
\* is fetched and rendered in the mount node instead; the requested fragment
\* was requested exactly once and is not rendered by that navigation.
C7_FallbackRendered ==
  SettledAfterFailedFetch =>
    /\ settled[1].rendered = <<FallbackView>>
    /\ mount.html = FallbackView
    /\ Count(settled[1].requests, settled[1].viewPath) = 1
    /\ Count(settled[1].rendered, settled[1].viewPath) = 0

\* C8: after any dispatch completes the mount node is not empty, whatever the
\* outcomes of the fragment fetch and of the fallback fetch.
C8_MountNeverEmpty ==
  settled # None => mount.html # ""

\* C9: no failing fetch leaves the dispatch that issued it rejected.
C9_NoUncaughtFailure ==
  settled # None => settled[1].pc # "rejected"

\* C10: a navigation calls its initializer exactly once, after its load has
\* completed and never before; a dispatch that redirects has no initializer
\* and starts no load.
C10_InitializerOncePerNavigation ==
  /\ settled # None =>
       settled[1].inits = (IF settled[1].viewInitializer # "null" THEN 1 ELSE 0)
  /\ \A i \in 1..Len(loads) : loads[i].inits = 0
  /\ \A i \in 1..Len(chain) :
       chain[i].redirect # "" =>
         ~chain[i].load /\ chain[i].viewInitializer = "null"

\* the cards in the available-courses list of the student dashboards
AvailableCards ==
  UNION { { dash[t].available[k] : k \in 1..Len(dash[t].available) } : t \in Tabs }

\* the user a card was rendered for is in the list it was rendered from
CardUserInList(card) ==
  \E i \in 1..Len(card.enrolledStudents) : card.enrolledStudents[i] = card.userId

\* the list a card was rendered from is shorter than the capacity it shows
CardHasFreeSeat(card) == LessThan(Len(card.enrolledStudents), card.capacity)

Wrote(op) ==
  /\ last # None
  /\ last[1].op = op
  /\ Find(courses, last[1].courseId) # 0

\* the enrolledStudents the store holds for the course of the last write
StoredList == courses[Find(courses, last[1].courseId)].enrolledStudents

\* C12: after a successful enroll by a user on a course, the user's id is
\* exactly once in the course's stored enrolledStudents, whatever clicks
\* (a second click before the re-render, a click in another tab of the same
\* session) led to it.
C12_EnrolledExactlyOnce ==
  Wrote("handleEnrollClick") => Count(StoredList, last[1].userId) = 1

\* the list with its i-th entry taken out, for an i where the entry is x
RemovedOne(list, x) ==
  { RemoveAt(list, i) : i \in { j \in 1..Len(list) : list[j] = x } }

\* C13: a successful unenroll by a user on a course removes exactly one
\* occurrence of the user's id from the stored enrolledStudents and leaves
\* every other entry and the order untouched, whatever the stored list held
\* when the write arrived.
C13_UnenrollRemovesOne ==
  Wrote("handleUnenrollClick") =>
    StoredList \in RemovedOne(last[1].before, last[1].userId)

\* the course of the last write
WrittenCourse == courses[Find(courses, last[1].courseId)]

\* C15: the enroll handler re-reads the list, but its write is not
\* conditioned on the capacity: a successful enroll stores the list read
\* plus the user's id whatever the capacity is, so two sessions that both
\* saw a free seat can both succeed and leave the list longer than capacity.
C15_EnrollWriteIgnoresCapacity ==
  Wrote("handleEnrollClick") =>
    /\ StoredList = last[1].sent
    /\ last[1].sent[Len(last[1].sent)] = last[1].userId

\* two students enrolled from dashboards that showed a free seat; both
\* writes succeeded and the list is longer than the capacity
C15_Witness ==
  /\ Wrote("handleEnrollClick")
  /\ last[1].before # <<>>
  /\ \A i \in 1..Len(last[1].before) : last[1].before[i] # last[1].userId
  /\ StoredList = Append(last[1].before, last[1].userId)
  /\ ~LessThan(Len(StoredList) - 1, WrittenCourse.capacity)

\* n <= v in the page, n a number: false when v converts to NaN
AtMost(n, v) == ToNumber(v) # NaN /\ n <= ToNumber(v).number

\* one student session in one tab, no other dashboard open
SingleStudentSession == dash[2].storage = None

\* C16: with a single student session and no other client writing, every
\* stored course has enrolledStudents.length <= capacity.
C16_WithinCapacity ==
  SingleStudentSession =>
    \A k \in 1..Len(courses) :
      AtMost(Len(courses[k].enrolledStudents), courses[k].capacity)

\* the largest number typed into a numeric field of the course form
MaxTyped == 10

\* the numbers whose decimal text is the characters text
Denoted(text) == { n \in 0..MaxTyped : ToDigits(n) = text }

\* the course form created a course in the last step
Created == last # None /\ last[1].op = "createCourse"

\* the course list a re-fetch returns
Refetched == getAllCourses(TRUE)

\* C14: after the administrator form has created a course from a title, a
\* description, a category, a capacity and an instructor id (the two numbers
\* typed as decimal text), a re-fetch of the course list holds an entry with
\* these five values and an empty enrolledStudents list.
C14_CreateRoundTrip ==
  Created =>
    /\ Find(Refetched, last[1].courseId) # 0
    /\ LET entry == Refetched[Find(Refetched, last[1].courseId)]
           f == last[1].form
       IN /\ entry.title = f.title
          /\ entry.description = f.description
          /\ entry.category = f.category
          /\ \A n \in Denoted(f.capacity) : entry.capacity = Num(n)
          /\ \A n \in Denoted(f.instructorId) : entry.instructorId = Num(n)
          /\ entry.enrolledStudents = <<>>

\* a course typed with capacity 10 and instructor 1 was created
C14_Witness ==
  /\ Created
  /\ 10 \in Denoted(last[1].form.capacity)
  /\ 1 \in Denoted(last[1].form.instructorId)
  /\ Len(Refetched) = 2
  /\ Refetched[2].capacity = Num(10)
  /\ Refetched[2].title = "Chemistry"

\* handleLogin returned in the last step, with this result
LoginReturned(result) ==
  last # None /\ last[1].op = "handleLogin" /\ last[1].result = result

\* the login requests one of which was answered in this step
AnsweredLogins ==
  { i \in 1..Len(logins) : logins' = RemoveAt(logins, i) }

\* the stored users with the email and the password of a login request
UsersWith(req) ==
  { u \in users : u.email = req.email /\ u.password = req.password }

\* a step in which handleLogin returns: true only when the store holds
\* exactly one user for the email and password, and that user's record is
\* then stored; false leaves the session, the location, the pending loads and
\* the mount node as they were
LoginStep ==
  (last' # None /\ last'[1].op = "handleLogin") =>
    /\ AnsweredLogins # {}
    /\ last'[1].result =>
         \E i \in AnsweredLogins :
           /\ UsersWith(logins[i]) = {last'[1].user}
           /\ localStorage' = saveUserInfo(last'[1].user)
    /\ (\A i \in AnsweredLogins : Cardinality(UsersWith(logins[i])) # 1) =>
         ~last'[1].result
    /\ ~last'[1].result =>
         UNCHANGED <<localStorage, users, path, chain, loads, mount, nav>>

\* after a successful login the dispatch of /tasks, pushed by navigateTo,
\* has read the session just stored, and its chain ends on the management
\* view for an administrator and on the student dashboard for a student;
\* after a failed one the message is shown
AfterLogin ==
  /\ LoginReturned(TRUE) =>
       /\ localStorage = saveUserInfo(last[1].user)
       /\ chain[1].path = "/tasks" /\ chain[1].pushed
       /\ chain[1].isAuth /\ chain[1].user = getCurrentUser(localStorage)
       /\ last[1].user.role = "administrator" =>
            /\ chain[Len(chain)].path = "/tasks"
            /\ chain[Len(chain)].load
            /\ chain[Len(chain)].viewPath = TasksView
       /\ last[1].user.role = "student" =>
            /\ chain[Len(chain)].path = "/student-dashboard"
            /\ chain[Len(chain)].load
            /\ chain[Len(chain)].viewPath = StudentView
  /\ LoginReturned(FALSE) =>
       last[1].alert = "Invalid credentials. Please try again"

\* C17: a login submit whose credential check succeeds (the store returns
\* exactly one user for the email and password) stores the session record
\* before it navigates, and the dispatch chain from /tasks ends on the
\* management view for an administrator and on the student dashboard for a
\* student; one that fails (zero or several matches, or a failed request)
\* creates no session record, navigates nowhere and shows a blocking message.
C17_LoginSubmit == []AfterLogin /\ [][LoginStep]_vars

\* a student has just logged in and the chain ended on the student dashboard
C17_Witness ==
  /\ LoginReturned(TRUE)
  /\ last[1].user.role = "student"
  /\ Len(chain) = 2
  /\ chain[2].viewPath = StudentView

\* handleRegister returned in the last step, with a user (TRUE) or null
RegisterReturned(result) ==
  last # None /\ last[1].op = "handleRegister" /\ last[1].result = result

\* the registrations whose check is pending for an email the store has a
\* user for
TakenChecks ==
  { i \in 1..Len(regs) :
      regs[i].pc = "check" /\ \E u \in users : u.email = regs[i].email }

\* a step of a registration: a check answered for an email that has a user
\* ends the call with null, with no create request sent, the users and the
\* location untouched; a call that returns a user has added exactly that one
\* user, a student, stored no session and called navigateTo("/login")
RegisterStep ==
  /\ \A i \in TakenChecks :
       /\ ~(Len(regs') = Len(regs) /\ regs'[i].pc = "create")
       /\ (regs' = RemoveAt(regs, i) /\ booted') =>
            /\ last' # None /\ last'[1].op = "handleRegister"
            /\ ~last'[1].result /\ ~last'[1].sent
            /\ UNCHANGED <<users, localStorage, path, chain, loads, mount>>
  /\ (last' # None /\ last'[1].op = "handleRegister" /\ last'[1].result) =>
       /\ Cardinality(users') = Cardinality(users) + 1
       /\ \E u \in users' \ users :
            /\ users' = users \cup {u}
            /\ u.role = "student"
            /\ u.email = last'[1].email
            /\ \E i \in 1..Len(regs) :
                 /\ regs' = RemoveAt(regs, i)
                 /\ regs[i].email = u.email /\ regs[i].password = u.password
       /\ localStorage' = localStorage
       /\ chain'[1].path = "/login" /\ chain'[1].pushed
  /\ users' # users =>
       (last' # None /\ last'[1].op = "handleRegister" /\ last'[1].result)

SessionOf(u) ==
  LET current == getCurrentUser(localStorage)
  IN /\ current # None
     /\ DOMAIN current[1] = {"id", "email", "role"}
     /\ current[1].id = u.id
     /\ current[1].email = u.email
     /\ current[1].role = u.role

\* C19: after saveUserInfo(u), getCurrentUser() returns exactly the id, the
\* email and the role of u, without the password or any other field, and
\* isAuthenticated() is true; after logOut(), getCurrentUser() is null and
\* isAuthenticated() is false; in every state isAuthenticated() holds if and
\* only if the session key is present.
C19_SessionStore ==
  /\ LoginReturned(TRUE) =>
       SessionOf(last[1].user) /\ isAuthenticated(localStorage)
  /\ (last # None /\ last[1].op = "logOut") =>
       getCurrentUser(localStorage) = None /\ ~isAuthenticated(localStorage)
  /\ isAuthenticated(localStorage) <=> localStorage # None
  /\ isAuthenticated(localStorage) <=> getCurrentUser(localStorage) # None

\* saveUserInfo has just stored a user the store returned with its password
C19_Witness ==
  /\ LoginReturned(TRUE)
  /\ "password" \in DOMAIN last[1].user
  /\ SessionOf(last[1].user)

\* what a step may do to the session record
SessionStep ==
  /\ localStorage' # localStorage =>
       \/ /\ last' # None /\ last'[1].op = "handleLogin" /\ last'[1].result
          /\ localStorage' = saveUserInfo(last'[1].user)
       \/ /\ last' # None /\ last'[1].op = "logOut"
          /\ localStorage' = None
  /\ (booted /\ ~booted') => localStorage' = localStorage
  /\ (~booted /\ booted') =>
       /\ localStorage' = localStorage
       /\ chain'[1].isAuth = isAuthenticated(localStorage)
       /\ chain'[1].user = getCurrentUser(localStorage)

Pending(q, op) == { i \in 1..Len(q) : q[i].op = op }

\* a submit of the course form happens in this step
Submitted ==
  /\ Len(adminCalls') = Len(adminCalls) + 1
  /\ adminCalls'[Len(adminCalls')].op \in {"createCourse", "updateCourse"}

\* the submit handler returned in this step after a success
SubmitSucceeded ==
  last' # None /\ last'[1].op \in {"createCourse", "updateCourse"}

\* the submit handler returned in this step after a failure
SubmitFailed ==
  last' # None /\ last'[1].op = "handleCourseFormSubmit"

SubmitStep ==
  /\ Submitted =>
       LET sent == adminCalls'[Len(adminCalls')]
       IN /\ adminCalls' = Append(adminCalls, sent)
          /\ admin.editingId # None =>
               /\ sent.op = "updateCourse"
               /\ sent.courseId = admin.editingId[1]
               /\ Pending(adminCalls', "createCourse")
                    = Pending(adminCalls, "createCourse")
          /\ admin.editingId = None =>
               /\ sent.op = "createCourse"
               /\ Pending(adminCalls', "updateCourse")
                    = Pending(adminCalls, "updateCourse")
  /\ (~Submitted /\ ~SubmitSucceeded /\ ~SubmitFailed) =>
       /\ Cardinality(Pending(adminCalls', "createCourse"))
            <= Cardinality(Pending(adminCalls, "createCourse"))
       /\ Cardinality(Pending(adminCalls', "updateCourse"))
            <= Cardinality(Pending(adminCalls, "updateCourse"))
  /\ SubmitSucceeded =>
       /\ admin'.editingId = None
       /\ admin'.submitText = "Create Course"
       /\ admin'.form = EmptyForm
       /\ admin'.cancelBtns = 0
  /\ SubmitFailed =>
       /\ admin'.editingId = admin.editingId
       /\ admin'.form = admin.form
       /\ admin'.submitText = admin.submitText
       /\ last'[1].alert = "Operation failed. Please check the console."
  /\ (last' # None /\ last'[1].op # "handleCourseFormSubmit") =>
       last'[1].alert = ""

\* C21: the submit handler of the course form branches on the edit flag it
\* reads at submit time: with a course id in the flag it sends exactly one
\* update request for that id and no create request, without the flag
\* exactly one create request and no update request; on success the flag
\* is cleared and the form is back in create mode, on failure the flag and
\* the form stay as they were and the alert is shown.
C21_SubmitBranches == [][SubmitStep]_vars

\* an update sent in edit mode has just succeeded and the form is back in
\* create mode
C21_Witness ==
  /\ last # None /\ last[1].op = "updateCourse"
  /\ admin.editingId = None /\ admin.submitText = "Create Course"

\* what a completing load does to the mount node, and what a navigation
\* does to the pending loads
StaleStep ==
  /\ (settled' # None /\ settled'[1].pc = "done") =>
       LET l == settled'[1]
           html == l.rendered[Len(l.rendered)]
       IN /\ mount'.html = html
          /\ mount' = AfterLoadView(l, SetInnerHTML(html))
  /\ (booted /\ booted' /\ Len(loads') < Len(loads)) =>
       settled' # None /\ Len(loads') = Len(loads) - 1
  /\ (booted /\ booted' /\ chain' # chain) =>
       /\ Len(loads') >= Len(loads)
       /\ \A i \in 1..Len(loads) :
            loads'[i] = [loads[i] EXCEPT !.latest = FALSE]

\* C22: a navigation cancels no pending fragment fetch: the fetch of a
\* superseded navigation still resolves, and when it resolves it
\* overwrites the mount node and its navigation's initializer runs, so the
\* view rendered in the end is the last writer's and can differ from the
\* fragment the current path resolves to.
C22_StaleCompletion == [][StaleStep]_vars

\* nothing is pending, the load that resolved last was superseded, its
\* initializer ran on its fragment, and the mount node holds another
\* fragment than the one the last dispatch resolved
C22_Witness ==
  /\ loads = <<>> /\ settled # None
  /\ settled[1].pc = "done" /\ ~settled[1].latest
  /\ settled[1].rendered = <<settled[1].viewPath>>
  /\ settled[1].inits = 1 /\ mount.listeners # "null"
  /\ mount.html = settled[1].viewPath
  /\ chain[Len(chain)].load
  /\ mount.html # chain[Len(chain)].viewPath

\* the redirects of the last chain: each is followed by the dispatch of its
\* target, called by navigateTo after pushState, and the guards decided
\* every dispatch of the chain
RedirectChain ==
  \A k \in 1..Len(chain) :
    LET d == chain[k]
    IN /\ (d.redirect # "") = (k < Len(chain))
       /\ d.redirect # "" =>
            /\ ~d.load
            /\ chain[k + 1].path = d.redirect
            /\ chain[k + 1].pushed
            /\ chain[k + 1].isAuth = d.isAuth
       /\ ProtectedGuard(d.path, d.isAuth) => d.redirect = "/login"
       /\ GuestOnlyGuard(d.path, d.isAuth) => d.redirect = "/tasks"

\* a dispatch ran in this step: its chain ends in the one dispatch that
\* calls loadView
Dispatched == Len(loads') > Len(loads)

NavigationStep ==
  /\ Dispatched =>
       /\ Len(loads') = Len(loads) + 1
       /\ loads'[Len(loads')].viewPath = chain'[Len(chain')].viewPath
       /\ loads'[Len(loads')].requests = <<chain'[Len(chain')].viewPath>>
       /\ mount' = mount
       /\ path' = chain'[Len(chain')].path
  /\ path' # path =>
       /\ Dispatched
       /\ last' # None => chain'[1].pushed
  /\ chain' # chain => (Dispatched \/ ~booted')

\* C23: every redirect pushes one history entry for its target and then
\* calls dispatch on it, so the guards run again on the target; a dispatch
\* that redirects issues no fragment fetch and does not write the mount
\* node; the handlers of the views change the path only through
\* navigateTo.
C23_Redirects == []RedirectChain /\ [][NavigationStep]_vars

\* a chain of two redirects has run: only its last dispatch fetches
C23_Witness ==
  /\ Len(chain) = 3
  /\ chain[1].redirect = "/tasks" /\ chain[2].redirect = "/student-dashboard"
  /\ chain[3].load /\ chain[3].pushed
  /\ Len(loads) = 1 /\ loads[1].requests = <<StudentView>>

\* C24: after a dispatch chain has completed with no other dispatch in
\* flight, the logout button is in the mount node if and only if a session
\* is stored (the mount node holds at most one logout button: logoutBtn is
\* the presence of the element with id logout-btn).
C24_LogoutMatchesSession ==
  (loads = <<>> /\ settled # None /\ settled[1].pc = "done") =>
    (mount.logoutBtn <=> isAuthenticated(localStorage))

\* Cancel was clicked in this step
Cancelled == admin'.cancelled /\ ~admin.cancelled

CancelStep ==
  /\ Cancelled =>
       /\ admin'.editingId = None
       /\ admin'.submitText = "Create Course"
       /\ admin'.form = EmptyForm
       /\ admin'.cancelBtns = 0
  /\ (Submitted /\ admin.cancelled) =>
       adminCalls'[Len(adminCalls')].op = "createCourse"

\* C25: Cancel clears the edit flag, puts the form back in create mode and
\* removes the cancel button; whatever Edit clicks were made, also with
\* several course fetches pending together, the form holds at most one
\* cancel button, and a submit that follows Cancel, with no Edit click in
\* between, sends a create and never an update.
C25_Cancel == [](admin.cancelBtns <= 1) /\ [][CancelStep]_vars

\* how many requests of one kind are pending
PendingCount(q, op) == Cardinality(Pending(q, op))

\* a create, an update or a delete succeeded in this step
ChangeSucceeded ==
  last' # None
  /\ last'[1].op \in {"createCourse", "updateCourse", "deleteCourse"}

\* deleteCourse returned false in this step
DeleteFailed ==
  PendingCount(adminCalls', "deleteCourse") < PendingCount(adminCalls, "deleteCourse")
  /\ last' = None

\* a loadAdminDashboard call got its lists in this step
AdminLoadAnswered ==
  PendingCount(adminCalls', "loadAdminDashboard") < PendingCount(adminCalls, "loadAdminDashboard")

RefreshStep ==
  /\ ChangeSucceeded =>
       /\ PendingCount(adminCalls', "loadAdminDashboard")
            = PendingCount(adminCalls, "loadAdminDashboard") + 1
       /\ Len(adminCalls') = Len(adminCalls)
       /\ adminCalls'[Len(adminCalls')] = LoadAdminDashboardCall
       /\ admin'.list = admin.list
  /\ PendingCount(adminCalls', "loadAdminDashboard")
       > PendingCount(adminCalls, "loadAdminDashboard") => ChangeSucceeded
  /\ AdminLoadAnswered =>
       \E i \in Pending(adminCalls, "loadAdminDashboard") :
         /\ adminCalls' = RemoveAt(adminCalls, i)
         /\ \/ admin'.list = <<>>
            \/ /\ adminCalls[i].body # None
               /\ admin'.list = renderCourses(adminCalls[i].body[1])
         /\ admin'.options \in
              { populateInstructorSelect(getAllInstructors(ok)) : ok \in BOOLEAN }
  /\ (SubmitFailed \/ DeleteFailed) =>
       /\ Len(adminCalls') = Len(adminCalls) - 1
       /\ PendingCount(adminCalls', "loadAdminDashboard")
            = PendingCount(adminCalls, "loadAdminDashboard")
       /\ courses' = courses
       /\ admin'.list = admin.list
  /\ admin'.list # admin.list => AdminLoadAnswered

\* C26: a successful delete, create or update triggers exactly one re-fetch
\* of courses and instructors, which is followed by a re-render of the
\* management view; a failed delete, create or update triggers no re-fetch,
\* no re-render and no retry and leaves the store and the rendered list
\* unchanged.
C26_Refresh == [][RefreshStep]_vars

\* a delete has just succeeded: its re-fetch is pending and the deleted
\* course is still in the rendered list
C26_Witness ==
  /\ last # None /\ last[1].op = "deleteCourse"
  /\ Find(courses, last[1].courseId) = 0
  /\ \E k \in 1..Len(admin.list) : admin.list[k].id = last[1].courseId
  /\ PendingCount(adminCalls, "loadAdminDashboard") = 1

\* a loadStudentDashboard call got its list in this step
StudentLoadAnswered ==
  Cardinality(Pending(calls', "loadStudentDashboard"))
    < Cardinality(Pending(calls, "loadStudentDashboard"))

\* the positions of the courses of cs a user is enrolled in
EnrolledIn(cs, userId) ==
  { k \in 1..Len(cs) :
      \E j \in 1..Len(cs[k].enrolledStudents) :
        cs[k].enrolledStudents[j] = userId }

\* both lists of a tab show the one list cs for the user
ShowsBoth(d, cs, userId) ==
  /\ Len(d.available) = Len(cs)
  /\ \A k \in 1..Len(cs) :
       /\ d.available[k].id = cs[k].id
       /\ d.available[k].label \in {"Enroll", "Already Enrolled", "Full"}
  /\ Len(d.mine) = Cardinality(EnrolledIn(cs, userId))
  /\ { d.mine[k].id : k \in 1..Len(d.mine) }
       = { cs[k].id : k \in EnrolledIn(cs, userId) }

RenderStep ==
  /\ StudentLoadAnswered =>
       \E i \in Pending(calls, "loadStudentDashboard") :
         /\ calls' = RemoveAt(calls, i)
         /\ \A t \in Tabs \ {calls[i].tab} : dash'[t] = dash[t]
         /\ \/ ShowsBoth(dash'[calls[i].tab], <<>>, calls[i].user[1].id)
            \/ /\ calls[i].pc = "response"
               /\ ShowsBoth(dash'[calls[i].tab], calls[i].list,
                            calls[i].user[1].id)
  /\ dash' # dash => StudentLoadAnswered

\* C27: in every render of the student dashboard the list of the user's
\* courses holds exactly the fetched courses whose enrolledStudents contains
\* the current user's id, each with its unenroll button, and the list of
\* available courses holds one card with an enroll button for every fetched
\* course; both lists come from the one fetch of the course list.
C27_BothLists == [][RenderStep]_vars

\* a tab shows a course among the user's courses and its card among the
\* available ones, rendered from a course with two enrolled ids
C27_Witness ==
  \E t \in Tabs :
    /\ Len(dash[t].mine) = 1 /\ Len(dash[t].available) = 1
    /\ Len(dash[t].available[1].enrolledStudents) = 2
    /\ dash[t].available[1].label = "Already Enrolled"

\* C28: redirect chains terminate: whatever the start path and the stored
\* session, a dispatch performs at most two redirects before a dispatch
\* resolves a fragment and loads it, and no chain visits a path twice.
C28_ChainsTerminate ==
  chain # <<>> =>
    /\ Len(chain) <= 3
    /\ chain[Len(chain)].load /\ chain[Len(chain)].redirect = ""
    /\ \A j, k \in 1..Len(chain) : chain[j].path = chain[k].path => j = k
    /\ \A k \in 1..Len(chain) : chain[k].isAuth = chain[1].isAuth

\* a chain of two redirects, the longest there is, ended in a load
C28_Witness ==
  /\ Len(chain) = 3
  /\ chain[1].path = "/register" /\ chain[1].isAuth
  /\ chain[3].load /\ chain[3].path = "/student-dashboard"

\* the entries of a list that are not the id x, in order
Others(list, x) ==
  LET other(y) == y # x
  IN SelectSeq(list, other)

\* C29: no update is lost: a successful enroll or unenroll write of a user
\* changes only that user's own entries of the stored list, so that when two
\* sessions' operations on a course overlap the stored list reflects both
\* (the other user's id, stored before this write, is still there, and an
\* id the other user has removed is not back).
C29_NoLostUpdate ==
  (Wrote("handleEnrollClick") \/ Wrote("handleUnenrollClick")) =>
    Others(StoredList, last[1].userId)
      = Others(last[1].before, last[1].userId)

\* C30: once every pending request of a dashboard has completed, the
\* rendered course list equals the store's current course list, also when
\* several re-fetch-and-re-render cycles of the dashboard were in flight
\* together and their responses arrived in another order than they were
\* issued.  Stated for the student dashboard open in one tab only, whose
\* last render showed a fetched list (not the empty list of a failed fetch).
C30_RenderedIsCurrent ==
  (calls = <<>> /\ dash[2].storage = None /\ dash[1].available # <<>>) =>
    /\ Len(dash[1].available) = Len(courses)
    /\ \A k \in 1..Len(courses) :
         /\ dash[1].available[k].id = courses[k].id
         /\ dash[1].available[k].enrolledStudents = courses[k].enrolledStudents


\* the course the form is editing is in the store
EditedCourseExists ==
  admin.editingId # None => Find(courses, admin.editingId[1]) # 0

\* a submit of this step that sends an update names a course of the store
UpdateOfStoredCourse ==
  (Submitted /\ adminCalls'[Len(adminCalls')].op = "updateCourse") =>
    Find(courses, adminCalls'[Len(adminCalls')].courseId) # 0

\* C31: whenever the edit flag of the course form is set it holds the id of
\* a course that is in the store (deleting the course being edited clears
\* the flag), and a submit never sends an update for a course that is no
\* longer in the store.
C31_EditFlagNamesCourse == []EditedCourseExists /\ [][UpdateOfStoredCourse]_vars


\* an update of the course form was answered with success in this step
Updated == last' # None /\ last'[1].op = "updateCourse"

\* the five fields an update sends
SentFields == {"title", "description", "category", "capacity", "instructorId"}

\* the fields of a course record
CourseFields ==
  {"id", "title", "description", "category", "capacity", "instructorId",
   "enrolledStudents"}

UpdateStep ==
  Updated =>
    LET k == Find(courses, last'[1].courseId)
    IN /\ k # 0
       /\ Len(courses') = Len(courses)
       /\ \A j \in 1..Len(courses) : j # k => courses'[j] = courses[j]
       /\ \A fld \in CourseFields \ SentFields :
            courses'[k][fld] = courses[k][fld]
       /\ courses'[k].title = last'[1].form.title
       /\ courses'[k].description = last'[1].form.description
       /\ courses'[k].category = last'[1].form.category

\* C32: an administrator update of a course changes only title,
\* description, category, capacity and instructorId of that course; its
\* enrolledStudents and id, and every other course of the store, are left
\* as they were.
C32_UpdateFrame == [][UpdateStep]_vars

\* an update has just changed the title of a course that has an enrolled
\* student, with a second course in the store
C32_Witness ==
  /\ last # None /\ last[1].op = "updateCourse"
  /\ Len(courses) = 2
  /\ LET k == Find(courses, last[1].courseId)
     IN /\ k # 0
        /\ courses[k].enrolledStudents # <<>>
        /\ courses[k].title # last[1].before[1].title


\* the fragment paths of the static route table
RouteFragments == { routes[p] : p \in DOMAIN routes }

\* C33: for every path and every stored session, also a session whose role
\* is neither administrator nor student, each dispatch either redirects or
\* calls the view loader with one of the six fragment paths of the route
\* table; the loader is never called with an undefined fragment path.
C33_LoaderGetsFragment ==
  /\ Cardinality(RouteFragments) = 6
  /\ \A k \in 1..Len(chain) :
       \/ chain[k].redirect # "" /\ ~chain[k].load
       \/ chain[k].load /\ chain[k].viewPath \in RouteFragments
  /\ \A i \in 1..Len(loads) : loads[i].requests[1] \in RouteFragments


\* no two users of the store have the same email
UniqueEmails == \A u \in users, v \in users : u.email = v.email => u = v

\* a pending login with the email and password of a user of the store is
\* answered with exactly one user
CorrectLoginFindsOne ==
  \A i \in 1..Len(logins) :
    UsersWith(logins[i]) # {} => Cardinality(UsersWith(logins[i])) = 1

\* C34: under any interleaving of registration attempts, also two
\* registrations of the same email whose existence checks are both answered
\* before either create, the users collection never holds two users with
\* the same email, so the login of a registered user with the correct
\* password finds exactly one match.
C34_UniqueEmails == UniqueEmails /\ CorrectLoginFindsOne

====
